---- MODULE Spec2Model ----
(***************************************************************************)
(* A model of the YouTube live-notification bot:                           *)
(*   - app/youtube_client.py : YouTubeClient (_get with key rotation and   *)
(*     retry/backoff, resolve_channel_id, get_live_now)                    *)
(*   - app/storage.py        : Storage (the JSON file's five mappings)     *)
(*   - main.py               : notifier_loop, on_shutdown                  *)
(*   - app/bot.py            : the command handlers that share Storage     *)
(*                                                                         *)
(* Two specifications:                                                     *)
(*   SpecGet : one task calling the client (resolve_channel_id -> _get),   *)
(*             one HTTP exchange per step.                                 *)
(*   Spec    : the notifier task interleaved, at its awaits, with the      *)
(*             command handlers, the clock, the upstream service and       *)
(*             process stop/restart.                                       *)
(***************************************************************************)
EXTENDS Integers, Sequences, FiniteSets, TLC

\* ------------------------------------------------------------------ bounds
MaxKeys == 3        \* credentials configured: 1..MaxKeys
MaxTime == 1        \* the clock runs 0..MaxTime
MaxCooldown == 1    \* COOLDOWN_SECONDS is drawn from 0..MaxCooldown (clock units)

\* ------------------------------------------------------- program constants
Retries == 3            \* _get(..., retries: int = 3)
BaseDelayMs == 500      \* delay = 0.5
BackoffFactor == 2      \* delay *= 2
MinIdLen == 20          \* len(hint) >= 20

\* --------------------------------------------------------------- strings
\* A Python str is a sequence of one-character strings.
Rep(ch, n) == [i \in 1..n |-> ch]

Lower == {"a","b","c","d","e","f","g","h","i","j","k","l","m",
          "n","o","p","q","r","s","t","u","v","w","x","y","z"}
Upper == {"A","B","C","D","E","F","G","H","I","J","K","L","M",
          "N","O","P","Q","R","S","T","U","V","W","X","Y","Z"}
Digit == {"0","1","2","3","4","5","6","7","8","9"}
\* the class [A-Za-z0-9_\-\.] of _YT_CHANNEL_URL_RE's third group
IdChars == Lower \cup Upper \cup Digit \cup {"_", "-", "."}
Whitespace == {" ", "\t", "\n"}

\* s[i..] starts with lit
HasAt(s, i, lit) ==
    /\ i >= 1
    /\ i + Len(lit) - 1 <= Len(s)
    /\ \A j \in 1..Len(lit) : s[i + j - 1] = lit[j]

startswith(s, lit) == HasAt(s, 1, lit)

\* str.strip(): leading and trailing whitespace removed
strip(s) ==
    LET keep == {i \in 1..Len(s) : s[i] \notin Whitespace}
    IN  IF keep = {} THEN <<>>
        ELSE LET lo == CHOOSE i \in keep : \A j \in keep : i <= j
                 hi == CHOOSE i \in keep : \A j \in keep : j <= i
             IN  SubSeq(s, lo, hi)

S_http == <<"h","t","t","p">>
S_s == <<"s">>
S_colon_slashes == <<":","/","/">>
S_www == <<"w","w","w",".">>
S_host == <<"y","o","u","t","u","b","e",".","c","o","m","/">>
S_channel == <<"c","h","a","n","n","e","l","/">>
S_at == <<"@">>
S_UC == <<"U","C">>

\* position after an optional literal
SkipOpt(s, i, lit) == IF HasAt(s, i, lit) THEN i + Len(lit) ELSE i

\* _YT_CHANNEL_URL_RE matched at position i of s: the position where group 3
\* starts, or 0 when the pattern does not match there.
\*   https?://(www\.)?youtube\.com/(channel/|@)([A-Za-z0-9_\-\.]+)
\* Every optional part starts with a character the part after it cannot
\* start with, so the match is decided without backtracking.
UrlGroup3Start(s, i) ==
    IF ~HasAt(s, i, S_http) THEN 0
    ELSE LET a == SkipOpt(s, i + Len(S_http), S_s)
         IN  IF ~HasAt(s, a, S_colon_slashes) THEN 0
             ELSE LET b == SkipOpt(s, a + Len(S_colon_slashes), S_www)
                  IN  IF ~HasAt(s, b, S_host) THEN 0
                      ELSE LET c == b + Len(S_host)
                               d == IF HasAt(s, c, S_channel) THEN c + Len(S_channel)
                                    ELSE IF HasAt(s, c, S_at) THEN c + Len(S_at)
                                    ELSE 0
                           IN  IF d = 0 \/ d > Len(s) THEN 0
                               ELSE IF s[d] \in IdChars THEN d ELSE 0

\* the greedy run of IdChars starting at position d (group 3)
IdRunEnd(s, d) ==
    LET stops == {j \in d..Len(s) : s[j] \notin IdChars}
    IN  IF stops = {} THEN Len(s)
        ELSE (CHOOSE j \in stops : \A k \in stops : j <= k) - 1

\* extract_channel_hint: re.search finds the leftmost match; <<>> stands for
\* Python's None (group 3 is never empty, so the two cannot be confused).
extract_channel_hint(text) ==
    LET s == strip(text)
        hits == {i \in 1..Len(s) : UrlGroup3Start(s, i) # 0}
    IN  IF hits = {} THEN <<>>
        ELSE LET i == CHOOSE k \in hits : \A j \in hits : k <= j
                 d == UrlGroup3Start(s, i)
             IN  SubSeq(s, d, IdRunEnd(s, d))

\* hint = self.extract_channel_hint(x) or x.strip()
channel_hint(text) ==
    LET h == extract_channel_hint(text)
    IN  IF h # <<>> THEN h ELSE strip(text)

\* if hint.startswith("UC") and len(hint) >= 20
is_canonical_id_strict(hint) == startswith(hint, S_UC) /\ Len(hint) > MinIdLen
is_canonical_id(hint) == startswith(hint, S_UC) /\ Len(hint) >= MinIdLen

\* def _sanitize(text): return text.strip()       (bot.py)
sanitize(text) == strip(text)

\* ------------------------------------------------ channel references (inputs)
\* What a user sends after /subscribe: an optional URL-ish prefix, a body and
\* an optional tail, possibly padded with blanks.
S_https_www_channel == S_http \o S_s \o S_colon_slashes \o S_www \o S_host \o S_channel
S_http_channel == S_http \o S_colon_slashes \o S_host \o S_channel
S_https_at == S_http \o S_s \o S_colon_slashes \o S_host \o S_at
S_https_m_channel == S_http \o S_s \o S_colon_slashes \o <<"m",".">> \o S_host \o S_channel
S_tail == <<"/","l","i","v","e">>
S_name == <<"n","e","w","s">>

UC(n) == S_UC \o Rep("a", n - 2)

Ref(pre, body, post) == [pre |-> pre, body |-> body, post |-> post]
RefText(ref) == ref.pre \o ref.body \o ref.post

\* URL prefixes that _YT_CHANNEL_URL_RE matches, and a channel URL it does not
\* (the mobile site's host)
RecognisedUrlPrefixes == {S_https_www_channel, S_http_channel, S_https_at}
ChannelUrlPrefixes == RecognisedUrlPrefixes \cup {S_https_m_channel}

Refs ==
    {Ref(<<>>, b, <<>>) : b \in {UC(MinIdLen + 4), UC(MinIdLen), UC(MinIdLen - 1), S_name}}
    \cup {Ref(u, UC(MinIdLen), <<>>) : u \in ChannelUrlPrefixes}
    \cup {Ref(S_https_www_channel, UC(MinIdLen + 4), S_tail),
          Ref(S_https_www_channel, UC(MinIdLen - 1), <<>>),
          Ref(S_https_at, S_name, <<>>),
          Ref(S_at, S_name, <<>>)}
RefPads == {<<>>, <<" ">>}

\* --------------------------------------------------------------- variables
VARIABLES
    nkeys,          \* len(self._keys)
    key_index,      \* self._key_index
    task,           \* per task: the client operation it is in, with _get's locals
    store,          \* the JSON file of Storage: its five mappings
    loop,           \* notifier_loop: where it is, and its locals
    handler,        \* the command handler in progress, if any
    now,            \* datetime.now(timezone.utc), in clock units
    live_on,        \* upstream: the broadcast live on each channel, or NotLive
    cooldown_seconds,   \* COOLDOWN_SECONDS
    obs             \* history kept for the properties (not program state)

clientVars == <<nkeys, key_index, task>>
botVars == <<store, loop, handler, now, live_on, cooldown_seconds, obs>>
vars == <<nkeys, key_index, task, store, loop, handler, now, live_on, cooldown_seconds, obs>>

Procs == {"handler", "notifier"}

\* ------------------------------------------------------------ YouTubeClient
\* self._keys: the credentials, named 1..n in their configured order
Keys(n) == [i \in 1..n |-> i]

\* @property api_key: self._keys[self._key_index]
api_key(keys, idx) == keys[idx + 1]

\* _advance_key
advance_key_skip(idx, n) == IF n > 1 THEN (idx + 2) % n ELSE idx
advance_key(idx, n) == IF n > 1 THEN (idx + 1) % n ELSE idx

\* while keys_tried < len(self._keys)
keys_left_short(keys_tried, n) == keys_tried + 1 < n
keys_left(keys_tried, n) == keys_tried < n

\* a ceiling one attempt too far
last_attempt_late(attempt) == attempt = Retries
\* if attempt == retries - 1: return None
last_attempt(attempt) == attempt = Retries - 1

\* delay *= 2
next_delay(delay) == delay * BackoffFactor

\* What awaiting self._client.get can raise (httpx's transport errors), and the
\* ones "except (httpx.ConnectError, httpx.ReadTimeout, httpx.WriteTimeout)" names.
\* httpx.ConnectTimeout and PoolTimeout are TimeoutExceptions, not ConnectErrors;
\* ReadError is what a connection reset raises.
TransportErrors ==
    {"ConnectError", "ReadTimeout", "WriteTimeout", "ConnectTimeout", "PoolTimeout", "ReadError"}
TimeoutErrors == {"ConnectTimeout", "ReadTimeout", "WriteTimeout", "PoolTimeout"}
is_caught(exc) == exc \in {"ConnectError", "ReadTimeout", "WriteTimeout"}

NoBody == "-"
\* The body of a 2xx response: "hit" has items[0] with the fields the caller
\* reads, "empty" has items == [], "no_items" is a JSON object without 'items',
\* "bad_item" has an items[0] without those fields, "not_json" is not JSON.
Bodies == {"hit", "empty", "no_items", "bad_item", "not_json"}
\* r.json().get("items", []); if not items: return None; items[0][..][..]:
\* r.json() raises on a body that is not JSON, the subscripts raise KeyError
read_items(body) ==
    CASE body = "hit" -> "value"
      [] body \in {"empty", "no_items"} -> "None"
      [] OTHER -> "raised"
S_found == UC(MinIdLen + 4)                \* items[0]["snippet"]["channelId"] of a "hit"

IdleTask ==
    [op |-> "none", pc |-> "idle", ref |-> <<>>, given |-> Ref(<<>>, <<>>, <<>>), idx0 |-> 0,
     keys_tried |-> 0, attempt |-> 0, delay |-> 0, key |-> 0,
     start |-> 0, reqs |-> <<>>, outs |-> <<>>, sleeps |-> <<>>, ncalls |-> 0,
     r |-> "-", rkey |-> 0, body |-> NoBody, exc |-> "-", only_timeouts |-> TRUE,
     calls |-> <<>>, ret |-> "-", val |-> <<>>]

\* _get entered: delay = 0.5, keys_tried = 0, the first pass of the while loop
\* snapshots the current key into params_with_key and awaits the first request.
get_enter(t, idx, n) ==
    [t EXCEPT !.pc = "http", !.delay = BaseDelayMs, !.keys_tried = 0, !.attempt = 0,
              !.key = api_key(Keys(n), idx), !.start = idx,
              !.reqs = <<api_key(Keys(n), idx)>>, !.outs = <<>>, !.sleeps = <<>>,
              !.ncalls = t.ncalls + 1, !.r = "-", !.rkey = 0, !.body = NoBody,
              !.exc = "-", !.only_timeouts = TRUE]

\* _get returns (r = "resp" | "none") or lets an exception through (r = "raised")
get_leave(t, out, r, body) ==
    [t EXCEPT !.pc = "got", !.outs = Append(t.outs, out), !.r = r,
              !.rkey = IF r = "resp" THEN t.key ELSE 0, !.body = body,
              !.only_timeouts = t.only_timeouts /\ out \in {"transient", "unhandled"}]

\* r = await self._client.get(...) answered 2xx: raise_for_status passes, return r
get_success(p) ==
    /\ task[p].pc = "http"
    /\ \E b \in Bodies :
         task' = [task EXCEPT ![p] = get_leave(task[p], "ok", "resp", b)]
    /\ UNCHANGED <<nkeys, key_index, botVars>>

\* 403 with a reason in quota_reasons: self._advance_key(); keys_tried += 1; break.
\* The while loop then either snapshots the (new) current key and awaits the
\* next request, or falls out and returns None.
get_quota_rejected(p) ==
    /\ task[p].pc = "http"
    /\ LET t == task[p]
           idx == advance_key(key_index, nkeys)
           tried == t.keys_tried + 1
       IN  /\ key_index' = idx
           /\ IF keys_left(tried, nkeys)
              THEN task' = [task EXCEPT ![p] =
                       [t EXCEPT !.keys_tried = tried, !.attempt = 0,
                                 !.key = api_key(Keys(nkeys), idx),
                                 !.outs = Append(t.outs, "quota"), !.only_timeouts = FALSE,
                                 !.reqs = Append(t.reqs, api_key(Keys(nkeys), idx))]]
              ELSE task' = [task EXCEPT ![p] =
                       get_leave([t EXCEPT !.keys_tried = tried], "quota", "none", NoBody)]
    /\ UNCHANGED <<nkeys, botVars>>

\* any other non-2xx (a 403 without a quota reason included): raise_for_status
\* raises HTTPStatusError, caught: return None
get_status_error_retried(p) ==
    /\ task[p].pc = "http"
    /\ LET t == task[p]
       IN  IF last_attempt(t.attempt)
           THEN task' = [task EXCEPT ![p] = get_leave(t, "status", "none", NoBody)]
           ELSE task' = [task EXCEPT ![p] =
                    [t EXCEPT !.pc = "backoff", !.outs = Append(t.outs, "status"),
                              !.only_timeouts = FALSE,
                              !.sleeps = Append(t.sleeps, t.delay)]]
    /\ UNCHANGED <<nkeys, key_index, botVars>>
get_status_error(p) ==
    /\ task[p].pc = "http"
    /\ task' = [task EXCEPT ![p] = get_leave(task[p], "status", "none", NoBody)]
    /\ UNCHANGED <<nkeys, key_index, botVars>>

\* the request raises an exception the except clause names: return None on
\* the last attempt, otherwise await asyncio.sleep(delay)
get_transient_error(p) ==
    /\ task[p].pc = "http"
    /\ \E exc \in TransportErrors :
         /\ is_caught(exc)
         /\ LET t == [task[p] EXCEPT !.exc = exc,
                          !.only_timeouts = task[p].only_timeouts /\ exc \in TimeoutErrors]
            IN  IF last_attempt(t.attempt)
                THEN task' = [task EXCEPT ![p] = get_leave(t, "transient", "none", NoBody)]
                ELSE task' = [task EXCEPT ![p] =
                         [t EXCEPT !.pc = "backoff", !.outs = Append(t.outs, "transient"),
                                   !.sleeps = Append(t.sleeps, t.delay)]]
    /\ UNCHANGED <<nkeys, key_index, botVars>>

\* the sleep is over: delay *= 2 and the for loop issues the next attempt with
\* the same params_with_key
get_backoff_elapsed(p) ==
    /\ task[p].pc = "backoff"
    /\ LET t == task[p]
       IN  task' = [task EXCEPT ![p] =
               [t EXCEPT !.pc = "http", !.delay = next_delay(t.delay),
                         !.attempt = t.attempt + 1, !.reqs = Append(t.reqs, t.key)]]
    /\ UNCHANGED <<nkeys, key_index, botVars>>

\* the request raises an exception no except clause names: it leaves _get
get_unhandled_error(p) ==
    /\ task[p].pc = "http"
    /\ \E exc \in TransportErrors :
         /\ ~is_caught(exc)
         /\ LET t == [task[p] EXCEPT !.exc = exc,
                          !.only_timeouts = task[p].only_timeouts /\ exc \in TimeoutErrors]
            IN  task' = [task EXCEPT ![p] = get_leave(t, "unhandled", "raised", NoBody)]
    /\ UNCHANGED <<nkeys, key_index, botVars>>

\* resolve_channel_id, up to its await: the fast path returns the hint, any
\* other reference enters _get
resolve_channel_id_call(p, given, pad) ==
    /\ task[p].pc = "idle"
    /\ LET ref == sanitize(pad \o RefText(given) \o pad)
           hint == channel_hint(ref)
           t == [IdleTask EXCEPT !.op = "resolve", !.ref = ref, !.given = given,
                                 !.idx0 = key_index]
       IN  IF is_canonical_id(hint)
           THEN task' = [task EXCEPT ![p] = [t EXCEPT !.pc = "done", !.ret = "value", !.val = hint]]
           ELSE task' = [task EXCEPT ![p] = get_enter(t, key_index, nkeys)]
    /\ UNCHANGED <<nkeys, key_index, botVars>>

\* resolve_channel_id after _get: None, or items[0]["snippet"]["channelId"]
resolve_channel_id_return(p) ==
    /\ task[p].pc = "got"
    /\ task[p].op = "resolve"
    /\ LET t == task[p]
       IN  task' = [task EXCEPT ![p] =
             CASE t.r = "raised" -> [t EXCEPT !.pc = "done", !.ret = "raised"]
               [] t.r = "none" -> [t EXCEPT !.pc = "done", !.ret = "None"]
               [] t.r = "resp" /\ read_items(t.body) = "None" -> [t EXCEPT !.pc = "done", !.ret = "None"]
               [] t.r = "resp" /\ t.body = "hit" ->
                     [t EXCEPT !.pc = "done", !.ret = "value", !.val = S_found]
               [] OTHER -> [t EXCEPT !.pc = "done", !.ret = "raised"]]
    /\ UNCHANGED <<nkeys, key_index, botVars>>

\* get_channel_title, up to its await: it enters _get
get_channel_title_call(p) ==
    /\ task[p].pc = "idle"
    /\ task' = [task EXCEPT ![p] =
           get_enter([IdleTask EXCEPT !.op = "title", !.idx0 = key_index], key_index, nkeys)]
    /\ UNCHANGED <<nkeys, key_index, botVars>>

\* get_channel_title after _get: None, or items[0]["snippet"].get("title")
get_channel_title_return(p) ==
    /\ task[p].pc = "got"
    /\ task[p].op = "title"
    /\ LET t == task[p]
       IN  task' = [task EXCEPT ![p] =
             CASE t.r = "raised" -> [t EXCEPT !.pc = "done", !.ret = "raised"]
               [] t.r = "none" -> [t EXCEPT !.pc = "done", !.ret = "None"]
               [] t.r = "resp" /\ read_items(t.body) = "None" -> [t EXCEPT !.pc = "done", !.ret = "None"]
               [] t.r = "resp" /\ t.body = "hit" -> [t EXCEPT !.pc = "done", !.ret = "value"]
               [] OTHER -> [t EXCEPT !.pc = "done", !.ret = "raised"]]
    /\ UNCHANGED <<nkeys, key_index, botVars>>

\* what a _get call gave its caller: "none", "raised", or the body of the response
call_result(t) == IF t.r = "resp" THEN t.body ELSE t.r

\* get_live_now, up to its first await: the live-event search enters _get
get_live_now_call(p) ==
    /\ task[p].pc = "idle"
    /\ task' = [task EXCEPT ![p] =
           get_enter([IdleTask EXCEPT !.op = "live", !.idx0 = key_index], key_index, nkeys)]
    /\ UNCHANGED <<nkeys, key_index, botVars>>

\* after the search: if r is None: return None; no items: return None;
\* video_id = items[0]["id"]["videoId"]; then the videos lookup enters _get
get_live_now_searched(p) ==
    /\ task[p].pc = "got"
    /\ task[p].op = "live"
    /\ Len(task[p].calls) = 0
    /\ LET t == [task[p] EXCEPT !.calls = Append(@, call_result(task[p]))]
       IN  task' = [task EXCEPT ![p] =
             CASE t.r = "raised" -> [t EXCEPT !.pc = "done", !.ret = "raised"]
               [] t.r = "none" -> [t EXCEPT !.pc = "done", !.ret = "None"]
               [] t.r = "resp" /\ read_items(t.body) = "value" -> get_enter(t, key_index, nkeys)
               [] OTHER -> [t EXCEPT !.pc = "done", !.ret = read_items(t.body)]]
    /\ UNCHANGED <<nkeys, key_index, botVars>>

\* after the videos lookup: vitems = r2.json().get("items", []) if r2 is not
\* None else []; the fields of vitems[0] are read with .get; then
\* get_channel_title enters _get
get_live_now_detailed(p) ==
    /\ task[p].pc = "got"
    /\ task[p].op = "live"
    /\ Len(task[p].calls) = 1
    /\ LET t == [task[p] EXCEPT !.calls = Append(@, call_result(task[p]))]
       IN  task' = [task EXCEPT ![p] =
             IF t.r = "raised" \/ (t.r = "resp" /\ t.body = "not_json")
             THEN [t EXCEPT !.pc = "done", !.ret = "raised"]
             ELSE get_enter(t, key_index, nkeys)]
    /\ UNCHANGED <<nkeys, key_index, botVars>>

\* after get_channel_title (None or a title, unless it raises):
\* return LiveInfo(...)
get_live_now_titled(p) ==
    /\ task[p].pc = "got"
    /\ task[p].op = "live"
    /\ Len(task[p].calls) = 2
    /\ LET t == [task[p] EXCEPT !.calls = Append(@, call_result(task[p]))]
       IN  task' = [task EXCEPT ![p] =
             IF t.r = "raised" \/ (t.r = "resp" /\ read_items(t.body) = "raised")
             THEN [t EXCEPT !.pc = "done", !.ret = "raised"]
             ELSE [t EXCEPT !.pc = "done", !.ret = "value"]]
    /\ UNCHANGED <<nkeys, key_index, botVars>>

\* the handler that called the client is over
task_done(p) ==
    /\ task[p].pc = "done"
    /\ task' = [task EXCEPT ![p] = IdleTask]
    /\ UNCHANGED <<nkeys, key_index, botVars>>


\* ------------------------------------------------------------------ Storage
Channels == {"A", "B"}
Chats == {1, 2}
Callers == {1}              \* the chats that send /subscribe while the notifier runs
DestChats == Chats          \* the chats bot.get_chat resolves a destination token to
NotLive == "none"
\* what is live on a channel over time: nothing, then its broadcasts in turn
Timeline(c) == IF c = "A" THEN <<NotLive, "a1", "a2">> ELSE <<NotLive, "b1">>
Videos == UNION {{Timeline(c)[i] : i \in 2..Len(Timeline(c))} : c \in Channels}

EmptyDict == [k \in {} |-> 0]
\* d[k] = v for a dict d
Put(d, k, v) == [x \in DOMAIN d \cup {k} |-> IF x = k THEN v ELSE d[x]]

\* d without the key k
Drop(d, k) == [x \in DOMAIN d \ {k} |-> d[x]]

\* Values of the "cooldown_until" mapping of the file that are not what
\* set_cooldown_until writes: a string that is no ISO-8601 timestamp, a
\* timestamp without a UTC offset, a JSON number, the empty string. The
\* mapping is kept in two parts: cooldown_until holds the entries that are
\* timestamps of the code's own format (as instants), cooldown_corrupt the others.
CorruptStamps == {"not_iso", "naive", "not_str", "empty"}

\* Storage.__init__ on a missing file
EmptyStore ==
    [subscriptions |-> [chat \in Chats |-> {}], last_live |-> EmptyDict,
     last_live_at |-> EmptyDict, cooldown_until |-> EmptyDict, destinations |-> EmptyDict,
     cooldown_corrupt |-> EmptyDict]

add_subscription(data, chat, c) ==
    [data EXCEPT !.subscriptions[chat] = @ \cup {c}]

remove_subscription(data, chat, c) ==
    [data EXCEPT !.subscriptions[chat] = @ \ {c}]

all_subscribers_for(data, c) == {chat \in Chats : c \in data.subscriptions[chat]}

list_destinations(data, c) ==
    IF c \in DOMAIN data.destinations THEN data.destinations[c] ELSE {}

all_channels(data) ==
    UNION {data.subscriptions[chat] : chat \in Chats} \cup DOMAIN data.destinations

set_last_live(data, c, v) == [data EXCEPT !.last_live = Put(@, c, v)]

set_last_live_at(data, c, ts) == [data EXCEPT !.last_live_at = Put(@, c, ts)]

set_cooldown_until(data, c, ts) ==
    [data EXCEPT !.cooldown_until = Put(@, c, ts), !.cooldown_corrupt = Drop(@, c)]

\* data.get("cooldown_until", {}).get(channel_id)
NoStamp == [kind |-> "None", t |-> 0]
get_cooldown_until(data, c) ==
    IF c \in DOMAIN data.cooldown_corrupt
    THEN [kind |-> data.cooldown_corrupt[c], t |-> 0]
    ELSE IF c \in DOMAIN data.cooldown_until
         THEN [kind |-> "iso", t |-> data.cooldown_until[c]]
         ELSE NoStamp

add_destination(data, c, chat) ==
    [data EXCEPT !.destinations = Put(@, c, list_destinations(data, c) \cup {chat})]

clear_destinations(data, c) ==
    IF c \in DOMAIN data.destinations
    THEN [data EXCEPT !.destinations = Put(@, c, {})]
    ELSE data

\* ------------------------------------------------------------ notifier_loop
\* cd = storage.get_cooldown_until(channel_id);
\* if cd: if datetime.now(timezone.utc) < datetime.fromisoformat(cd): continue
\* if cd
truthy(cd) == cd.kind \notin {"None", "empty"}

\* a comparison that takes whatever it cannot read for a deadline still ahead
cooldown_test_blocking(cd, t) ==
    IF cd.kind = "iso" /\ ~(t < cd.t) THEN "pass" ELSE "continue"
\* try: if datetime.now(timezone.utc) < datetime.fromisoformat(cd): continue
\* except Exception: pass
\* fromisoformat raises ValueError for a string it cannot parse and TypeError
\* for what is not a string; comparing the aware now with a naive datetime
\* raises TypeError
cooldown_test(cd, t) ==
    IF cd.kind \in {"not_iso", "not_str"} THEN "pass"
    ELSE IF cd.kind = "naive" THEN "pass"
    ELSE IF t < cd.t THEN "continue" ELSE "pass"

in_cooldown_never(data, c, t) == FALSE
in_cooldown(data, c, t) ==
    LET cd == get_cooldown_until(data, c)
    IN  truthy(cd) /\ cooldown_test(cd, t) = "continue"

\* last = storage.get_last_live(channel_id); if last == live.video_id: continue
is_new_always(data, c, v) == TRUE
is_new(data, c, v) == ~(c \in DOMAIN data.last_live /\ data.last_live[c] = v)

\* targets = set(all_subscribers_for(channel_id)) | set(list_destinations(channel_id))
recipients_subscribers_only(data, c) == all_subscribers_for(data, c)
recipients(data, c) == all_subscribers_for(data, c) \cup list_destinations(data, c)

\* a deadline that lies before the instant of the write
cooldown_deadline_past(t, secs) == t - secs
\* (datetime.now(timezone.utc) + timedelta(seconds=cooldown_seconds)).isoformat()
cooldown_deadline(t, secs) == t + secs

\* if cooldown_seconds > 0
cooldown_enabled(secs) == secs > 0

\* What awaiting get_live_now(channel_id) gives: None (not live, or the search
\* call returned None), a LiveInfo with the id of the broadcast that is live,
\* or an exception that _get or the parsing of a response let through.
get_live_now(upstream, c) ==
    {"None", "raise"} \cup (IF upstream[c] = NotLive THEN {} ELSE {upstream[c]})

IdleLoop == [pc |-> "ready", todo |-> {}, cur |-> "-", live |-> "-", targets |-> {}]
IdleHandler == [pc |-> "idle", chat |-> 0, chan |-> "-"]

NoMsg == [chat |-> 0, chan |-> "-", vid |-> "-", by |-> "-", ok |-> FALSE]
NoStep == [targets0 |-> {}, tried |-> {}, cd0 |-> EmptyDict, at |-> 0]
NoEvent == [ev |-> "-", chan |-> "-"]
\* The history of a behaviour. Deliveries are followed for one channel and
\* one chat, obs.chan and obs.chat, which never change.
InitObs(c, chat) ==
    [chan |-> c, chat |-> chat,
     prev |-> [x \in Channels |-> NotLive],  \* what get_live_now last returned to the loop
     last |-> NoEvent,      \* the last step skipped chan ("skip"), got its previous id again
                            \* ("same"), cancelled the notifier ("cancel") or killed the process ("kill")
     out |-> NoMsg,         \* the live message the last step sent
     got |-> FALSE,         \* obs.chat received a live message for last_live[obs.chan]
     failed |-> FALSE,      \* a send of the loop to obs.chat for last_live[obs.chan] failed
     owed |-> FALSE,        \* obs.chat, a recipient of last_live[obs.chan], had no attempt yet
     step |-> NoStep]       \* the commit in progress: subscribers and destinations, chats
                            \* tried, cooldowns before it, and its time

\* the chats the store names for channel c, as subscribers or destinations
SubscribersAndDestinations(data, c) ==
    {chat \in Chats : c \in data.subscriptions[chat]}
        \cup (IF c \in DOMAIN data.destinations THEN data.destinations[c] ELSE {})

\* a step that sends no live message
Quiet(o) == [o EXCEPT !.out = NoMsg, !.last = NoEvent]
\* a step that sends one
Sent(o, chat, c, v, by, ok) ==
    LET mine == c = o.chan /\ chat = o.chat
    IN  [o EXCEPT !.out = [chat |-> chat, chan |-> c, vid |-> v, by |-> by, ok |-> ok],
                  !.last = NoEvent,
                  !.got = @ \/ (mine /\ ok),
                  !.failed = @ \/ (mine /\ by = "loop" /\ ~ok),
                  !.owed = @ /\ ~mine]

\* the notifier task is suspended at an await (or not yet started): the
\* event loop can run a handler, and time passes
NotifierSuspended ==
    \/ loop.pc \in {"ready", "await_live", "sleep"}
    \/ loop.pc = "send" /\ loop.targets # {}

\* while True: try: channels = storage.all_channels()
notifier_sweep_start ==
    /\ loop.pc \in {"ready", "sleep"}
    /\ loop' = [IdleLoop EXCEPT !.pc = "iter", !.todo = all_channels(store)]
    /\ obs' = Quiet(obs)
    /\ UNCHANGED <<store, handler, now, live_on, cooldown_seconds, clientVars>>

\* for channel_id in channels
notifier_next_channel(c) ==
    /\ loop.pc = "iter"
    /\ c \in loop.todo
    /\ loop' = [loop EXCEPT !.todo = @ \ {c}, !.cur = c, !.pc = "gate"]
    /\ obs' = Quiet(obs)
    /\ UNCHANGED <<store, handler, now, live_on, cooldown_seconds, clientVars>>

\* the cooldown check says continue
notifier_cooldown_skip ==
    /\ loop.pc = "gate"
    /\ in_cooldown(store, loop.cur, now)
    /\ loop' = [loop EXCEPT !.cur = "-", !.pc = "iter"]
    /\ obs' = [Quiet(obs) EXCEPT !.last = [ev |-> "skip", chan |-> loop.cur]]
    /\ UNCHANGED <<store, handler, now, live_on, cooldown_seconds, clientVars>>

\* ... or lets the channel through: live = await yt.get_live_now(channel_id)
notifier_poll ==
    /\ loop.pc = "gate"
    /\ ~in_cooldown(store, loop.cur, now)
    /\ loop' = [loop EXCEPT !.pc = "await_live"]
    /\ obs' = Quiet(obs)
    /\ UNCHANGED <<store, handler, now, live_on, cooldown_seconds, clientVars>>

\* the for loop is exhausted: await asyncio.sleep(interval)
notifier_sweep_done ==
    /\ loop.pc = "iter"
    /\ loop.todo = {}
    /\ loop' = [IdleLoop EXCEPT !.pc = "sleep"]
    /\ obs' = Quiet(obs)
    /\ UNCHANGED <<store, handler, now, live_on, cooldown_seconds, clientVars>>

\* get_live_now returned r to the loop for channel c
Returned(o, c, r) ==
    [o EXCEPT !.prev[c] = r,
              !.last = IF r \in Videos /\ o.prev[c] = r
                       THEN [ev |-> "same", chan |-> c] ELSE NoEvent]

\* if not live: continue
notifier_live_none ==
    /\ loop.pc = "await_live"
    /\ "None" \in get_live_now(live_on, loop.cur)
    /\ loop' = [loop EXCEPT !.pc = "iter", !.cur = "-"]
    /\ obs' = Returned(Quiet(obs), loop.cur, NotLive)
    /\ UNCHANGED <<store, handler, now, live_on, cooldown_seconds, clientVars>>

\* get_live_now raises: "except Exception: pass" around the whole for loop
\* ends the sweep
notifier_live_raised_fatal ==
    /\ loop.pc = "await_live"
    /\ "raise" \in get_live_now(live_on, loop.cur)
    /\ loop' = [IdleLoop EXCEPT !.pc = "stopped"]
    /\ obs' = Quiet(obs)
    /\ UNCHANGED <<store, handler, now, live_on, cooldown_seconds, clientVars>>
notifier_live_raised ==
    /\ loop.pc = "await_live"
    /\ "raise" \in get_live_now(live_on, loop.cur)
    /\ loop' = [IdleLoop EXCEPT !.pc = "sleep"]
    /\ obs' = Quiet(obs)
    /\ UNCHANGED <<store, handler, now, live_on, cooldown_seconds, clientVars>>

\* if last == live.video_id: continue
notifier_live_same_touching ==
    /\ loop.pc = "await_live"
    /\ \E v \in get_live_now(live_on, loop.cur) \cap Videos :
         /\ ~is_new(store, loop.cur, v)
         /\ obs' = Returned(Quiet(obs), loop.cur, v)
    /\ store' = set_last_live_at(store, loop.cur, now)
    /\ loop' = [loop EXCEPT !.pc = "iter", !.cur = "-"]
    /\ UNCHANGED <<handler, now, live_on, cooldown_seconds, clientVars>>
notifier_live_same ==
    /\ loop.pc = "await_live"
    /\ \E v \in get_live_now(live_on, loop.cur) \cap Videos :
         /\ ~is_new(store, loop.cur, v)
         /\ obs' = Returned(Quiet(obs), loop.cur, v)
    /\ loop' = [loop EXCEPT !.pc = "iter", !.cur = "-"]
    /\ UNCHANGED <<store, handler, now, live_on, cooldown_seconds, clientVars>>

\* a new broadcast: storage.set_last_live(channel_id, live.video_id)
notifier_live_new ==
    /\ loop.pc = "await_live"
    /\ \E v \in get_live_now(live_on, loop.cur) \cap Videos :
         /\ is_new(store, loop.cur, v)
         /\ store' = set_last_live(store, loop.cur, v)
         /\ loop' = [loop EXCEPT !.pc = "commit_at", !.live = v]
         /\ obs' = [Returned(Quiet(obs), loop.cur, v) EXCEPT
                       !.owed = IF loop.cur = obs.chan
                                THEN obs.chat \in SubscribersAndDestinations(store, loop.cur)
                                ELSE @,
                       !.got = IF loop.cur = obs.chan THEN FALSE ELSE @,
                       !.failed = IF loop.cur = obs.chan THEN FALSE ELSE @,
                       !.step = [targets0 |-> SubscribersAndDestinations(store, loop.cur),
                                 tried |-> {},
                                 cd0 |-> store.cooldown_until, at |-> now]]
    /\ UNCHANGED <<handler, now, live_on, cooldown_seconds, clientVars>>

\* storage.set_last_live_at(channel_id, datetime.now(timezone.utc).isoformat())
notifier_commit_at ==
    /\ loop.pc = "commit_at"
    /\ store' = set_last_live_at(store, loop.cur, now)
    /\ loop' = [loop EXCEPT !.pc = IF cooldown_enabled(cooldown_seconds)
                                   THEN "commit_cd" ELSE "recipients"]
    /\ obs' = Quiet(obs)
    /\ UNCHANGED <<handler, now, live_on, cooldown_seconds, clientVars>>

\* if cooldown_seconds > 0: storage.set_cooldown_until(channel_id, now + cooldown)
notifier_commit_cooldown ==
    /\ loop.pc = "commit_cd"
    /\ store' = set_cooldown_until(store, loop.cur, cooldown_deadline(now, cooldown_seconds))
    /\ loop' = [loop EXCEPT !.pc = "recipients"]
    /\ obs' = Quiet(obs)
    /\ UNCHANGED <<handler, now, live_on, cooldown_seconds, clientVars>>

\* targets = subscribers | destinations
notifier_recipients ==
    /\ loop.pc = "recipients"
    /\ loop' = [loop EXCEPT !.pc = "send", !.targets = recipients(store, loop.cur)]
    /\ obs' = Quiet(obs)
    /\ UNCHANGED <<store, handler, now, live_on, cooldown_seconds, clientVars>>

\* the send loop without its inner try/except: a failed send reaches the
\* outer except and ends the sweep
notifier_send_aborting(chat, ok) ==
    /\ loop.pc = "send"
    /\ chat \in loop.targets
    /\ loop' = IF ok THEN [loop EXCEPT !.targets = @ \ {chat}]
               ELSE [IdleLoop EXCEPT !.pc = "sleep"]
    /\ obs' = [Sent(obs, chat, loop.cur, loop.live, "loop", ok) EXCEPT
                  !.step.tried = @ \cup {chat}]
    /\ UNCHANGED <<store, handler, now, live_on, cooldown_seconds, clientVars>>
\* for chat_id in targets: await bot.send_message(chat_id, text), whose
\* exception is swallowed
notifier_send(chat, ok) ==
    /\ loop.pc = "send"
    /\ chat \in loop.targets
    /\ loop' = [loop EXCEPT !.targets = @ \ {chat}]
    /\ obs' = [Sent(obs, chat, loop.cur, loop.live, "loop", ok) EXCEPT
                  !.step.tried = @ \cup {chat}]
    /\ UNCHANGED <<store, handler, now, live_on, cooldown_seconds, clientVars>>

\* every target has been tried: on to the next channel
notifier_channel_done ==
    /\ loop.pc = "send"
    /\ loop.targets = {}
    /\ loop' = [loop EXCEPT !.pc = "iter", !.cur = "-", !.live = "-"]
    /\ obs' = [Quiet(obs) EXCEPT !.step = NoStep]
    /\ UNCHANGED <<store, handler, now, live_on, cooldown_seconds, clientVars>>

\* a Storage call of the commit raises (the file cannot be read or written):
\* the outer except ends the sweep
notifier_storage_error ==
    /\ loop.pc \in {"commit_at", "commit_cd", "recipients"}
    /\ loop' = [IdleLoop EXCEPT !.pc = "sleep"]
    /\ obs' = [Quiet(obs) EXCEPT !.step = NoStep]
    /\ UNCHANGED <<store, handler, now, live_on, cooldown_seconds, clientVars>>

\* on_shutdown: notifier_task.cancel() raises CancelledError at the await the
\* task is suspended in; "except Exception" does not catch it
on_shutdown ==
    /\ NotifierSuspended
    /\ loop' = [IdleLoop EXCEPT !.pc = "stopped"]
    /\ handler' = IdleHandler
    /\ obs' = [Quiet(obs) EXCEPT !.step = NoStep, !.last = [ev |-> "cancel", chan |-> "-"]]
    /\ UNCHANGED <<store, now, live_on, cooldown_seconds, clientVars>>

\* the process dies between two statements of the commit
process_killed ==
    /\ loop.pc \in {"commit_at", "commit_cd", "recipients"}
    /\ loop' = [IdleLoop EXCEPT !.pc = "stopped"]
    /\ handler' = IdleHandler
    /\ obs' = [Quiet(obs) EXCEPT !.step = NoStep, !.last = [ev |-> "kill", chan |-> "-"]]
    /\ UNCHANGED <<store, now, live_on, cooldown_seconds, clientVars>>

\* main() again: on_startup creates the notifier task over the same file
process_restart ==
    /\ loop.pc = "stopped"
    /\ loop' = IdleLoop
    /\ obs' = Quiet(obs)
    /\ UNCHANGED <<store, handler, now, live_on, cooldown_seconds, clientVars>>

\* ------------------------------------------------------------------ bot.py
\* cmd_subscribe with an argument that resolve_channel_id resolved to c:
\* storage.add_subscription, then (after the title and the answer) it awaits
\* yt.get_live_now(channel_id)
cmd_subscribe(chat, c) ==
    /\ NotifierSuspended
    /\ handler.pc = "idle"
    /\ store' = add_subscription(store, chat, c)
    /\ handler' = [pc |-> "sub_live", chat |-> chat, chan |-> c]
    /\ obs' = Quiet(obs)
    /\ UNCHANGED <<loop, now, live_on, cooldown_seconds, clientVars>>

\* if live: last = storage.get_last_live(channel_id);
\* if last == live.video_id: await message.answer("... в эфире ...")
cmd_subscribe_informs(ok) ==
    /\ NotifierSuspended
    /\ handler.pc = "sub_live"
    /\ \E v \in get_live_now(live_on, handler.chan) \cap Videos :
         /\ ~is_new(store, handler.chan, v)
         /\ obs' = Sent(obs, handler.chat, handler.chan, v, "subscribe", ok)
    /\ handler' = IdleHandler
    /\ UNCHANGED <<store, loop, now, live_on, cooldown_seconds, clientVars>>

\* get_live_now gave None or raised, or the live id is not the stored one
cmd_subscribe_silent ==
    /\ NotifierSuspended
    /\ handler.pc = "sub_live"
    /\ \E r \in get_live_now(live_on, handler.chan) :
         r \in Videos => is_new(store, handler.chan, r)
    /\ handler' = IdleHandler
    /\ obs' = Quiet(obs)
    /\ UNCHANGED <<store, loop, now, live_on, cooldown_seconds, clientVars>>

\* sub_waiting_dest: storage.add_subscription for the private chat; with
\* "skip" that is all, otherwise it awaits bot.get_chat for a token
sub_waiting_dest(chat, c, skip) ==
    /\ NotifierSuspended
    /\ handler.pc = "idle"
    /\ store' = add_subscription(store, chat, c)
    /\ handler' = IF skip THEN IdleHandler
                  ELSE [pc |-> "get_chat", chat |-> chat, chan |-> c]
    /\ obs' = Quiet(obs)
    /\ UNCHANGED <<loop, now, live_on, cooldown_seconds, clientVars>>

\* chat = await bot.get_chat(target); storage.add_destination(channel_id, chat.id)
sub_waiting_dest_chat(dst) ==
    /\ NotifierSuspended
    /\ handler.pc = "get_chat"
    /\ store' = add_destination(store, handler.chan, dst)
    /\ handler' = IdleHandler
    /\ obs' = Quiet(obs)
    /\ UNCHANGED <<loop, now, live_on, cooldown_seconds, clientVars>>

\* bot.get_chat raises: failed.append(token)
sub_waiting_dest_failed ==
    /\ NotifierSuspended
    /\ handler.pc = "get_chat"
    /\ handler' = IdleHandler
    /\ obs' = Quiet(obs)
    /\ UNCHANGED <<store, loop, now, live_on, cooldown_seconds, clientVars>>

\* remove_picking with the number of channel c:
\* storage.remove_subscription(chat, c); storage.clear_destinations(c)
remove_picking(chat, c) ==
    /\ NotifierSuspended
    /\ handler.pc = "idle"
    /\ c \in store.subscriptions[chat]
    /\ store' = clear_destinations(remove_subscription(store, chat, c), c)
    /\ obs' = Quiet(obs)
    /\ UNCHANGED <<loop, handler, now, live_on, cooldown_seconds, clientVars>>

\* -------------------------------------------------------------- environment
\* the clock
tick ==
    /\ NotifierSuspended \/ loop.pc = "stopped"
    /\ now < MaxTime
    /\ now' = now + 1
    /\ obs' = Quiet(obs)
    /\ UNCHANGED <<store, loop, handler, live_on, cooldown_seconds, clientVars>>

\* the next broadcast of a channel starts
upstream_changes(c) ==
    /\ NotifierSuspended \/ loop.pc = "stopped"
    /\ \E i \in 1..(Len(Timeline(c)) - 1) :
         /\ live_on[c] = Timeline(c)[i]
         /\ live_on' = [live_on EXCEPT ![c] = Timeline(c)[i + 1]]
    /\ obs' = Quiet(obs)
    /\ UNCHANGED <<store, loop, handler, now, cooldown_seconds, clientVars>>

InitBotQuiet ==
    /\ store = EmptyStore
    /\ loop = IdleLoop
    /\ handler = IdleHandler
    /\ now = 0
    /\ live_on = [c \in Channels |-> NotLive]
    /\ cooldown_seconds = 0
    /\ obs = InitObs("A", 1)

\* Storage.__init__ on the file the subscription dialogue left when chat 2
\* tracked channel A and named chat 1 and itself as destinations
StoredFile ==
    add_destination(add_destination(add_subscription(EmptyStore, 2, "A"), "A", 1), "A", 2)

InitBot ==
    /\ store = StoredFile
    /\ loop = IdleLoop
    /\ handler = IdleHandler
    /\ now = 0
    /\ live_on = [c \in Channels |-> NotLive]
    /\ cooldown_seconds \in 0..MaxCooldown
    /\ obs = InitObs("A", 1)

\* the same file with channel B tracked too, after something other than
\* set_cooldown_until wrote the cooldown_until entry of A, and perhaps of B
InitCorrupt ==
    /\ nkeys = 1
    /\ key_index = 0
    /\ task = [p \in Procs |-> IdleTask]
    /\ \E ka \in CorruptStamps, kb \in CorruptStamps \cup {"None"} :
          store = [add_subscription(StoredFile, 2, "B") EXCEPT
                      !.cooldown_corrupt =
                          IF kb = "None" THEN Put(EmptyDict, "A", ka)
                          ELSE Put(Put(EmptyDict, "A", ka), "B", kb)]
    /\ loop = IdleLoop
    /\ handler = IdleHandler
    /\ now = 0
    /\ live_on = [c \in Channels |-> NotLive]
    /\ cooldown_seconds \in 0..MaxCooldown
    /\ obs = InitObs("A", 1)

InitClient ==
    /\ nkeys \in 1..MaxKeys
    /\ key_index = 0
    /\ task = [p \in Procs |-> IdleTask]

\* a client of 1..MaxKeys credentials, no store content, no notifier activity
InitGet == InitClient /\ InitBotQuiet

Init ==
    /\ nkeys = 1
    /\ key_index = 0
    /\ task = [p \in Procs |-> IdleTask]
    /\ InitBot

\* In Spec a call of the client is its outcome (get_live_now above); the
\* client's own steps are SpecGet's. The handler that runs beside the
\* notifier is cmd_subscribe; the dialogues that only edit the store are
\* SpecBot's.
Next ==
        \/ notifier_sweep_start
        \/ \E c \in Channels : notifier_next_channel(c)
        \/ notifier_cooldown_skip
        \/ notifier_poll
        \/ notifier_sweep_done
        \/ notifier_live_none
        \/ notifier_live_raised
        \/ notifier_live_same
        \/ notifier_live_new
        \/ notifier_commit_at
        \/ notifier_commit_cooldown
        \/ notifier_recipients
        \/ \E chat \in Chats, ok \in BOOLEAN : notifier_send(chat, ok)
        \/ notifier_channel_done
        \/ notifier_storage_error
        \/ on_shutdown
        \/ process_killed
        \/ process_restart
        \/ \E chat \in Callers, c \in Channels : cmd_subscribe(chat, c)
        \/ \E ok \in BOOLEAN : cmd_subscribe_informs(ok)
        \/ cmd_subscribe_silent
        \/ tick
        \/ \E c \in Channels : upstream_changes(c)

Spec == Init /\ [][Next]_vars

\* the steps of the notifier task
NotifierRuns ==
        \/ notifier_sweep_start
        \/ \E c \in Channels : notifier_next_channel(c)
        \/ notifier_cooldown_skip
        \/ notifier_poll
        \/ notifier_sweep_done
        \/ notifier_live_none
        \/ notifier_live_raised
        \/ notifier_live_same
        \/ notifier_live_new
        \/ notifier_commit_at
        \/ notifier_commit_cooldown
        \/ notifier_recipients
        \/ \E chat \in Chats, ok \in BOOLEAN : notifier_send(chat, ok)
        \/ notifier_channel_done
        \/ notifier_storage_error

\* The notifier task with its environment and no handler beside it, under the
\* event loop's scheduling: a task whose await has completed is resumed, and
\* the awaits of the notifier complete (the HTTP client has a timeout,
\* asyncio.sleep(interval) ends).
NextSweeps ==
        \/ NotifierRuns
        \/ on_shutdown
        \/ process_killed
        \/ process_restart
        \/ tick
        \/ \E c \in Channels : upstream_changes(c)

\* the stored file with channel B tracked too (chat 2 subscribes to it)
InitLive ==
    /\ nkeys = 1
    /\ key_index = 0
    /\ task = [p \in Procs |-> IdleTask]
    /\ store = add_subscription(StoredFile, 2, "B")
    /\ loop = IdleLoop
    /\ handler = IdleHandler
    /\ now = 0
    /\ live_on = [c \in Channels |-> NotLive]
    /\ cooldown_seconds \in 0..MaxCooldown
    /\ obs = InitObs("A", 1)

\* get_live_now answers the truth for channel A: None only when nothing is live on it
notifier_live_none_truly ==
    /\ loop.cur = "A" => live_on["A"] = NotLive
    /\ notifier_live_none

\* get_live_now raises for a channel other than A
notifier_live_raised_elsewhere ==
    /\ loop.cur # "A"
    /\ notifier_live_raised

\* the steps of the notifier task when the calls made for channel A succeed
\* and the store can be read and written
NotifierRunsLive ==
        \/ notifier_sweep_start
        \/ \E c \in Channels : notifier_next_channel(c)
        \/ notifier_cooldown_skip
        \/ notifier_poll
        \/ notifier_sweep_done
        \/ notifier_live_none_truly
        \/ notifier_live_raised_elsewhere
        \/ notifier_live_same
        \/ notifier_live_new
        \/ notifier_commit_at
        \/ notifier_commit_cooldown
        \/ notifier_recipients
        \/ \E chat \in Chats, ok \in BOOLEAN : notifier_send(chat, ok)
        \/ notifier_channel_done

\* ... and when no call raises for any channel
NotifierRunsCalm ==
        \/ notifier_sweep_start
        \/ \E c \in Channels : notifier_next_channel(c)
        \/ notifier_cooldown_skip
        \/ notifier_poll
        \/ notifier_sweep_done
        \/ notifier_live_none_truly
        \/ notifier_live_same
        \/ notifier_live_new
        \/ notifier_commit_at
        \/ notifier_commit_cooldown
        \/ notifier_recipients
        \/ \E chat \in Chats, ok \in BOOLEAN : notifier_send(chat, ok)
        \/ notifier_channel_done

\* The notifier task, never cancelled or killed, with the clock and the
\* upstream as its environment, under the event loop's scheduling.
NextLive ==
        \/ NotifierRunsLive
        \/ tick
        \/ \E c \in Channels : upstream_changes(c)

SpecLive == InitLive /\ [][NextLive]_vars /\ WF_vars(NotifierRunsLive)

NextCalm ==
        \/ NotifierRunsCalm
        \/ tick
        \/ \E c \in Channels : upstream_changes(c)

SpecCalm == InitLive /\ [][NextCalm]_vars /\ WF_vars(NotifierRunsCalm)

\* the sweeps over a file with corrupt cooldown entries
SpecCorrupt == InitCorrupt /\ [][NextSweeps]_vars

SpecSweeps == Init /\ [][NextSweeps]_vars /\ WF_vars(NotifierRuns)

\* the dialogues on their own, from an absent file
NextBot ==
        \/ \E chat \in Chats, c \in Channels, skip \in BOOLEAN : sub_waiting_dest(chat, c, skip)
        \/ \E dst \in DestChats : sub_waiting_dest_chat(dst)
        \/ sub_waiting_dest_failed
        \/ \E chat \in Chats, c \in Channels : remove_picking(chat, c)

SpecBot == InitGet /\ [][NextBot]_vars

\* the task that calls the client in SpecGet
Callees == {"handler"}

NextGet ==
    \E p \in Callees :
        \/ \E ref \in Refs, pad \in RefPads : resolve_channel_id_call(p, ref, pad)
        \/ get_success(p)
        \/ get_quota_rejected(p)
        \/ get_status_error(p)
        \/ get_transient_error(p)
        \/ get_backoff_elapsed(p)
        \/ get_unhandled_error(p)
        \/ resolve_channel_id_return(p)
        \/ get_channel_title_call(p)
        \/ get_channel_title_return(p)
        \/ get_live_now_call(p)
        \/ get_live_now_searched(p)
        \/ get_live_now_detailed(p)
        \/ get_live_now_titled(p)
        \/ task_done(p)

\* Two tasks on one client: the notifier and a handler, each suspended at the
\* await of its own _get call while the other runs. The requests are answered
\* with a status (2xx, quota rejection, other); transport errors are SpecGet's.
NextShared ==
    \E p \in Procs :
        \/ get_channel_title_call(p)
        \/ get_success(p)
        \/ get_quota_rejected(p)
        \/ get_status_error(p)
        \/ get_channel_title_return(p)
        \/ task_done(p)

SpecShared == InitGet /\ [][NextShared]_vars

SpecGet == InitGet /\ [][NextGet]_vars

\* ================================================================ properties
\* --------------------------------------------------------- the client, SpecGet
InGet(t) == t.pc \in {"http", "backoff", "got"}
AllOuts(t, o) == \A i \in 1..Len(t.outs) : t.outs[i] = o
\* the credentials in cyclic order from cursor position start
CyclicKeys(start, n, m) == [i \in 1..m |-> ((start + i - 1) % n) + 1]

\* C4 - rotation exhaustiveness: a _get call whose requests are all answered
\* with a quota/auth rejection has issued one request with each of the N
\* credentials (in cursor order) when it returns None; when the first N-1 are
\* rejected and the N-th succeeds, it returns the N-th credential's response.
C4_RotationExhaustive ==
    \A p \in Procs :
        LET t == task[p]
        IN  t.pc = "got" =>
              /\ AllOuts(t, "quota") =>
                    /\ t.r = "none"
                    /\ t.reqs = CyclicKeys(t.start, nkeys, nkeys)
              /\ ( /\ Len(t.outs) = nkeys
                   /\ \A i \in 1..(nkeys - 1) : t.outs[i] = "quota"
                   /\ t.outs[nkeys] = "ok" ) =>
                    /\ t.r = "resp"
                    /\ t.reqs = CyclicKeys(t.start, nkeys, nkeys)
                    /\ t.rkey = t.reqs[nkeys]

C4_Witness ==
    \E p \in Procs :
        /\ task[p].pc = "got"
        /\ nkeys >= 2
        /\ Len(task[p].outs) = nkeys
        /\ AllOuts(task[p], "quota")
        /\ task[p].r = "none"

\* C5 - cursor position after rotation: a call in which only the current
\* credential k is rejected and the next one succeeds returns the response of
\* credential k+1 (mod N) and leaves the cursor on it; every call starts with
\* the credential under the cursor, and the cursor moves only by a rotation
\* (one step forward), never back to the first credential otherwise.
C5_CursorNow ==
    \A p \in Procs :
        LET t == task[p]
        IN  /\ InGet(t) => t.reqs[1] = api_key(Keys(nkeys), t.start)
            /\ (t.pc = "got" /\ t.outs = <<"quota", "ok">>) =>
                  /\ key_index = (t.start + 1) % nkeys
                  /\ t.r = "resp"
                  /\ t.rkey = Keys(nkeys)[((t.start + 1) % nkeys) + 1]
                  /\ t.reqs = <<Keys(nkeys)[t.start + 1], t.rkey>>

C5_CursorStep ==
    key_index' # key_index =>
        /\ key_index' = (key_index + 1) % nkeys
        /\ \E p \in Procs :
              /\ task[p].pc = "http"
              /\ task'[p].outs = Append(task[p].outs, "quota")

C5_CursorAfterRotation == [](C5_CursorNow) /\ [][C5_CursorStep]_vars

C5_Witness ==
    \E p \in Procs :
        /\ task[p].pc = "got"
        /\ task[p].outs = <<"quota", "ok">>
        /\ task[p].start = 1
        /\ key_index = 2

\* C6 - retry ceiling: a _get call whose every request times out has issued
\* exactly `retries` requests with the credential it started with, has waited
\* 0.5 s and then 1.0 s between them, and returns None with the cursor where
\* it was, raising nothing.
C6_RetryCeiling ==
    \A p \in Procs :
        LET t == task[p]
        IN  (t.pc = "got" /\ t.only_timeouts) =>
              /\ Len(t.reqs) = Retries
              /\ \A i \in 1..Len(t.reqs) : t.reqs[i] = api_key(Keys(nkeys), t.start)
              /\ t.sleeps = <<BaseDelayMs, BaseDelayMs * BackoffFactor>>
              /\ t.r = "none"
              /\ key_index = t.start

\* the same for the exceptions the except clause names (C6 restricted to them)
RetryCeilingOfCaughtErrors ==
    \A p \in Procs :
        LET t == task[p]
        IN  (t.pc = "got" /\ AllOuts(t, "transient")) =>
              /\ Len(t.reqs) = Retries
              /\ \A i \in 1..Len(t.reqs) : t.reqs[i] = api_key(Keys(nkeys), t.start)
              /\ t.sleeps = <<BaseDelayMs, BaseDelayMs * BackoffFactor>>
              /\ t.r = "none"
              /\ key_index = t.start

\* what the claim calls a canonical channel id
CanonicalId(s) == Len(s) >= MinIdLen /\ s[1] = "U" /\ s[2] = "C"

ResolvedFast(t, id) ==
    /\ t.ret = "value"
    /\ t.val = id
    /\ t.ncalls = 0
    /\ t.reqs = <<>>
    /\ key_index = t.idx0

ResolvedBySearch(t) ==
    /\ t.ncalls = 1
    /\ (t.r = "resp" /\ t.body = "hit") => (t.ret = "value" /\ t.val = S_found)
    /\ (t.r = "none" \/ (t.r = "resp" /\ t.body = "empty")) => t.ret = "None"

ResolveRoundTrip(urlPrefixes) ==
    \A p \in Procs :
        LET t == task[p]
        IN  (t.pc = "done" /\ t.op = "resolve") =>
              IF CanonicalId(t.ref) THEN ResolvedFast(t, t.ref)
              ELSE IF t.given.pre \in urlPrefixes /\ CanonicalId(t.given.body)
                   THEN ResolvedFast(t, t.given.body)
                   ELSE ResolvedBySearch(t)

\* C10 as claimed - a canonical id, or any channel URL that embeds one,
\* resolves to that id with no upstream request and the cursor untouched; any
\* other reference makes exactly one search call and yields the first hit's
\* channel id, or None when the result set is empty or the call failed.
C10_AnyChannelUrl == ResolveRoundTrip(ChannelUrlPrefixes)

\* C10 as amended - the same, for the channel URLs _YT_CHANNEL_URL_RE matches
\* (http or https, optional www., host youtube.com, channel/ or @); a channel
\* URL of another form is resolved by the search call like any other reference.
C10_RecognisedChannelUrl == ResolveRoundTrip(RecognisedUrlPrefixes)

C10_Witness ==
    \E p \in Procs :
        /\ task[p].pc = "done"
        /\ task[p].given.pre = S_https_www_channel
        /\ task[p].given.post = S_tail
        /\ task[p].val = task[p].given.body
        /\ task[p].ncalls = 0
        /\ key_index = 1

\* ------------------------------------------------------------ the notifier, Spec
\* the step in which get_live_now returns to the loop
LoopGotAnswer == loop.pc = "await_live" /\ loop'.pc \in {"iter", "commit_at"}
\* the step in which the loop sends a live message
LoopSends == obs'.out.by = "loop"
InChannelStep(c) ==
    loop.cur = c /\ loop.pc \in {"commit_at", "commit_cd", "recipients", "send"}
CooldownInFuture(c) ==
    c \in DOMAIN store.cooldown_until /\ now < store.cooldown_until[c]

\* C1 - dedup idempotence: when get_live_now returns to the loop the broadcast
\* id it returned for that channel the time before, the loop goes on to the
\* next channel: it writes nothing, sends nothing and has nobody left to send
\* to; and within the sweep that detected the id a chat is sent to only while
\* it is among the targets still to serve, which it then leaves, so that no
\* recipient gets a second notification of the id from the loop.
C1_Step ==
    /\ (LoopGotAnswer /\ obs'.last.ev = "same") =>
          /\ loop'.pc = "iter"
          /\ loop'.targets = {}
          /\ store' = store
          /\ obs'.out = NoMsg
    /\ LoopSends =>
          /\ loop.pc = "send"
          /\ obs'.out.chan = loop.cur
          /\ obs'.out.vid = store.last_live[loop.cur]
          /\ obs'.out.chat \in loop.targets
          /\ loop'.targets = loop.targets \ {obs'.out.chat}
    /\ (loop.pc = "send" /\ loop'.pc = "send") => loop'.targets \subseteq loop.targets

C1_DedupIdempotence == [][C1_Step]_vars

C1_Witness ==
    /\ obs.last = [ev |-> "same", chan |-> "A"]
    /\ store.last_live["A"] = obs.prev["A"]
    /\ SubscribersAndDestinations(store, "A") # {}
    /\ loop.pc = "iter"

\* C2 - cooldown gate: a sweep never calls get_live_now for a channel whose
\* cooldown_until is in the future; at the gate such a channel is skipped,
\* whatever the number of sweeps since cooldown_until was set.
C2_Step ==
    (loop.pc = "gate" /\ CooldownInFuture(loop.cur)) =>
        /\ loop'.pc # "await_live"
        /\ loop'.pc = "gate" \/ (loop'.pc = "iter" /\ obs'.last.ev = "skip")

C2_CooldownGate == [][C2_Step]_vars

C2_Witness ==
    /\ obs.last = [ev |-> "skip", chan |-> "A"]
    /\ CooldownInFuture("A")
    /\ store.cooldown_until["A"] = store.last_live_at["A"] + cooldown_seconds
    /\ loop.pc = "iter"

\* C3 - per-channel isolation: an exception raised while the loop processes
\* one channel (by get_live_now or by a storage call of the commit) does not
\* end the sweep while another channel of the sweep is still to be polled.
C3_Step ==
    (loop.pc \in {"await_live", "commit_at", "commit_cd", "recipients"} /\ loop'.pc = "sleep")
        => loop.todo = {}

C3_ChannelIsolation == [][C3_Step]_vars

\* C7 - commit and notify on a new broadcast: get_live_now returning an id
\* other than the stored one starts a commit of that id (and only an id equal
\* to the stored one is passed over); from the commit on, to the end of the
\* channel's step, last_live is the id, last_live_at the time of the commit,
\* cooldown_until that time plus cooldown_seconds when cooldown_seconds > 0 and
\* what it was before otherwise; the loop sends to the chats that were
\* subscribers or destinations of the channel at the commit, to each once, and
\* the step ends when all of them have been tried.
C7_Committed ==
    loop.pc = "send" =>
        LET c == loop.cur
            st == obs.step
        IN  /\ c \in DOMAIN store.last_live /\ store.last_live[c] = loop.live
            /\ c \in DOMAIN store.last_live_at /\ store.last_live_at[c] = st.at
            /\ IF cooldown_seconds > 0
               THEN /\ c \in DOMAIN store.cooldown_until
                    /\ store.cooldown_until[c] = st.at + cooldown_seconds
               ELSE /\ c \in DOMAIN store.cooldown_until <=> c \in DOMAIN st.cd0
                    /\ c \in DOMAIN st.cd0 => store.cooldown_until[c] = st.cd0[c]
            /\ st.tried \subseteq st.targets0
            /\ loop.targets = st.targets0 \ st.tried

C7_Step ==
    /\ LoopGotAnswer =>
          LET c == loop.cur
              v == obs'.prev[c]
              stored == c \in DOMAIN store.last_live /\ store.last_live[c] = v
          IN  /\ (v \in Videos /\ ~stored) =>
                    /\ loop'.pc = "commit_at"
                    /\ loop'.live = v
                    /\ store'.last_live[c] = v
              /\ loop'.pc = "commit_at" => (v \in Videos /\ ~stored)
    /\ LoopSends =>
          /\ obs'.out.chat \in obs.step.targets0 \ obs.step.tried
          /\ obs'.step.tried = obs.step.tried \cup {obs'.out.chat}
    /\ (loop.pc = "send" /\ loop'.pc = "iter") => obs.step.tried = obs.step.targets0

C7_CommitAndNotify == [](C7_Committed) /\ [][C7_Step]_vars

C7_Witness ==
    /\ loop.pc = "send"
    /\ loop.cur = "A"
    /\ loop.targets = {}
    /\ obs.step.tried = {1, 2}
    /\ 2 \in all_subscribers_for(store, "A") \cap list_destinations(store, "A")
    /\ 1 \notin all_subscribers_for(store, "A")
    /\ cooldown_seconds > 0
    /\ store.cooldown_until["A"] = obs.step.at + cooldown_seconds

\* C8 - no duplicate notification: no step delivers a live message for the
\* stored broadcast of a channel to a chat that has already received one for
\* it, whether the notifier or cmd_subscribe sends the message.
C8_Step ==
    (obs'.out.ok /\ obs'.out.chan = obs.chan /\ obs'.out.chat = obs.chat) => ~obs.got

C8_NoDuplicate == [][C8_Step]_vars

\* C9 - at-least-once delivery: last_live is never left equal to a broadcast
\* id, outside the step of the loop that committed it, while a chat that was a
\* recipient at the commit has had no delivery attempt for it: what a
\* cancellation or a crash interrupted is still owed, and the sweeps after it
\* do not send it.
C9_NothingOwed == obs.owed => InChannelStep(obs.chan)

\* the step in which a request of task p is answered with outcome o
Answered(p, o) == task[p].pc = "http" /\ task'[p].outs = Append(task[p].outs, o)

\* C11 - hard failure: a request answered with a non-2xx status that is not a
\* quota/auth rejection ends the call at once with None: no request follows in
\* the call, no backoff is slept, the attempt counter does not move, and the
\* credential cursor stays where it was.
C11_Step ==
    \A p \in Procs :
        Answered(p, "status") =>
            /\ task'[p].pc = "got"
            /\ task'[p].r = "none"
            /\ task'[p].reqs = task[p].reqs
            /\ task'[p].sleeps = task[p].sleeps
            /\ task'[p].attempt = task[p].attempt
            /\ task'[p].keys_tried = task[p].keys_tried
            /\ key_index' = key_index

C11_HardFailure == [][C11_Step]_vars

C11_Witness ==
    \E p \in Procs :
        /\ task[p].pc = "got"
        /\ task[p].outs = <<"transient", "status">>
        /\ task[p].r = "none"
        /\ Len(task[p].reqs) = 2
        /\ Len(task[p].sleeps) = 1
        /\ key_index = task[p].start

\* the credentials rejected for quota/auth so far in the call of task t
Rejected(t) == {t.reqs[i] : i \in {j \in 1..Len(t.outs) : t.outs[j] = "quota"}}

\* C12 - rotation under concurrent calls: with two _get calls in progress on
\* one client, no call issues a request with a credential that was already
\* rejected in that call, and a call returns None after a quota/auth rejection
\* only when every one of the N credentials has been rejected in that call.
C12_SafeRotation ==
    \A p \in Procs :
        LET t == task[p]
        IN  /\ InGet(t) =>
                \A i \in 1..Len(t.outs), j \in 1..Len(t.reqs) :
                    (i < j /\ t.outs[i] = "quota") => t.reqs[j] # t.reqs[i]
            /\ (t.pc = "got" /\ t.r = "none" /\ t.outs[Len(t.outs)] = "quota") =>
                Rejected(t) = {api_key(Keys(nkeys), i) : i \in 0..(nkeys - 1)}

\* C13 - status unknown: a get_live_now whose live-event search call fails
\* (_get gives None), or whose search finds an item but whose broadcast-details
\* lookup fails, returns None.
C13_StatusUnknown ==
    \A p \in Procs :
        LET t == task[p]
        IN  (t.op = "live" /\ t.pc = "done") =>
              /\ t.calls[1] = "none" => t.ret = "None"
              /\ (Len(t.calls) >= 2 /\ t.calls[1] = "hit" /\ t.calls[2] = "none") =>
                    t.ret = "None"

\* the part of C13 the code keeps: a failed search call gives None
SearchFailureIsNone ==
    \A p \in Procs :
        (task[p].op = "live" /\ task[p].pc = "done" /\ task[p].calls[1] = "none")
            => (task[p].ret = "None" /\ task[p].ncalls = 1)

\* C14 - transient network failures never escape the client: whatever
\* transport error a request raises (connect, read or write timeout, connection
\* error, connection reset), _get does not raise; it retries with backoff and a
\* call whose last request failed that way was on the last of its `retries`
\* attempts with that credential and returns None.
C14_NeverEscapes ==
    \A p \in Procs :
        LET t == task[p]
        IN  t.pc = "got" =>
              /\ t.r # "raised"
              /\ t.outs[Len(t.outs)] \in {"transient", "unhandled"} =>
                    /\ t.r = "none"
                    /\ t.attempt = Retries - 1

\* the same for the three exception classes the except clause names
CaughtErrorsNeverEscape ==
    \A p \in Procs :
        LET t == task[p]
        IN  (t.pc = "got" /\ t.outs[Len(t.outs)] = "transient") =>
                (t.r = "none" /\ t.attempt = Retries - 1)

\* the body of the 2xx response that decided the result of the operation of
\* task t: the search of resolve_channel_id and of get_live_now, the channels
\* lookup of get_channel_title
DecidingBody(t) ==
    IF t.op = "live" THEN t.calls[1]
    ELSE IF t.r = "resp" THEN t.body ELSE "none"

Unexpected(bodies) ==
    \A p \in Procs :
        LET t == task[p]
        IN  (t.pc = "done" /\ t.ncalls >= 1 /\ DecidingBody(t) \in bodies) => t.ret = "None"

\* C15 - malformed or unexpected responses are a domain outcome: when the 2xx
\* response has an empty result set, no 'items', an item without the field the
\* caller reads, or a body that is not JSON, resolve_channel_id,
\* get_channel_title and get_live_now return None and raise nothing.
C15_MalformedIsNone == Unexpected({"empty", "no_items", "bad_item", "not_json"})

\* the part of C15 the code keeps: an empty or absent result set gives None
EmptyResultIsNone == Unexpected({"empty", "no_items"})

\* nothing of the notification state is written and no delivery is attempted
Untouched ==
    /\ store'.last_live = store.last_live
    /\ store'.last_live_at = store.last_live_at
    /\ store'.cooldown_until = store.cooldown_until
    /\ obs'.out = NoMsg
    /\ loop'.targets = {}
    /\ loop'.pc = "iter"

\* C16 - skip paths change nothing: the step in which the cooldown gate skips a
\* channel, the step in which get_live_now returns None, and the step in which
\* it returns the stored last_live of the channel write neither last_live,
\* last_live_at nor cooldown_until of any channel and attempt no delivery; the
\* loop goes on to the next channel.
C16_Step ==
    LET c == loop.cur
    IN  /\ (loop.pc = "gate" /\ CooldownInFuture(c) /\ loop'.pc # "gate") => Untouched
        /\ (LoopGotAnswer /\ obs'.prev[c] = NotLive) => Untouched
        /\ ( /\ LoopGotAnswer
             /\ obs'.prev[c] \in Videos
             /\ c \in DOMAIN store.last_live
             /\ store.last_live[c] = obs'.prev[c] ) => Untouched

C16_SkipPaths == [][C16_Step]_vars

C16_Witness ==
    /\ loop.pc = "iter"
    /\ "A" \in DOMAIN store.last_live
    /\ obs.prev["A"] = NotLive
    /\ "A" \in DOMAIN store.last_live_at
    /\ store.last_live_at["A"] < now
    /\ obs.out = NoMsg

InSweep == loop.pc \notin {"ready", "sleep", "stopped"}

\* C17 - the sweep loop is perpetual and non-overlapping: a sweep, completed
\* or cut short by an exception, is followed by the sleep, and the sleep by the
\* next sweep; the channels of a sweep are read only when the task starts or a
\* sleep has ended; the loop stops only by a cancellation (or the death of the
\* process), never by an exception; and a cancellation can be delivered, and
\* stops the loop, at the sleep and at every await of a request or a send.
C17_Step ==
    /\ (InSweep /\ ~InSweep') => loop'.pc \in {"sleep", "stopped"}
    /\ (loop.pc = "sleep" /\ loop'.pc # "sleep") => loop'.pc \in {"iter", "stopped"}
    /\ (~InSweep /\ InSweep') => (loop.pc \in {"ready", "sleep"} /\ loop'.todo = all_channels(store))
    /\ (InSweep /\ InSweep') => loop'.todo \subseteq loop.todo
    /\ (loop.pc # "stopped" /\ loop'.pc = "stopped") => obs'.last.ev \in {"cancel", "kill"}
    /\ obs'.last.ev = "cancel" => (NotifierSuspended /\ loop'.pc = "stopped")

C17_Cancellable == NotifierSuspended => ENABLED on_shutdown

\* the safety part, which also holds with cmd_subscribe running (Spec)
SweepsInTurn == [][C17_Step]_vars /\ [](C17_Cancellable)

C17_PerpetualSweeps ==
    /\ [][C17_Step]_vars
    /\ [](C17_Cancellable)
    /\ (InSweep ~> (loop.pc \in {"sleep", "stopped"}))
    /\ ((loop.pc = "sleep") ~> (loop.pc \in {"iter", "stopped"}))

C17_Witness ==
    /\ loop.pc = "iter"
    /\ loop.todo = {"A"}
    /\ obs.prev["A"] # NotLive
    /\ store.last_live["A"] = obs.prev["A"]

\* the points at which another task can see the store, the loop can be
\* cancelled, or the process has stopped
ObservablePoint == NotifierSuspended \/ loop.pc = "stopped"

\* the persisted entry of channel c is whole: it has a last_live_at exactly
\* when it has a last_live, and with a positive cooldown_seconds its
\* cooldown_until is the one written with that last_live_at
EntryWhole(c) ==
    /\ c \in DOMAIN store.last_live <=> c \in DOMAIN store.last_live_at
    /\ cooldown_seconds > 0 =>
          /\ c \in DOMAIN store.last_live_at <=> c \in DOMAIN store.cooldown_until
          /\ c \in DOMAIN store.cooldown_until =>
                store.cooldown_until[c] = store.last_live_at[c] + cooldown_seconds

\* a step writes the notification state only to commit an id that
\* get_live_now returned and the comparison found new
WritesFollowDecision ==
    (\/ store'.last_live # store.last_live
     \/ store'.last_live_at # store.last_live_at
     \/ store'.cooldown_until # store.cooldown_until) =>
        \/ /\ LoopGotAnswer
           /\ obs'.prev[loop.cur] \in Videos
           /\ ~(loop.cur \in DOMAIN store.last_live /\ store.last_live[loop.cur] = obs'.prev[loop.cur])
        \/ loop.pc \in {"commit_at", "commit_cd"}

WritesOnlyAfterDecision == [][WritesFollowDecision]_vars

\* C18 - the commit is atomic: at every observable point the persisted entry
\* of each channel is whole (the state before the detection, or last_live,
\* last_live_at and, with a positive cooldown, cooldown_until all of the new
\* broadcast), and nothing is written before get_live_now has returned an id
\* found new.
C18_AtomicCommit ==
    /\ [](ObservablePoint => \A c \in Channels : EntryWhole(c))
    /\ [][WritesFollowDecision]_vars

\* a step that writes cooldown_until writes it for the channel whose new
\* broadcast is being committed, to a value not before the instant of the
\* write and not before the value it replaces
C19_Step ==
    store'.cooldown_until # store.cooldown_until =>
        /\ loop.pc = "commit_cd"
        /\ loop.cur \in DOMAIN store.last_live
        /\ store.last_live[loop.cur] = loop.live
        /\ loop.cur \in DOMAIN store.last_live_at
        /\ store.last_live_at[loop.cur] = obs.step.at
        /\ DOMAIN store'.cooldown_until = DOMAIN store.cooldown_until \cup {loop.cur}
        /\ \A c \in DOMAIN store.cooldown_until \ {loop.cur} :
              store'.cooldown_until[c] = store.cooldown_until[c]
        /\ store'.cooldown_until[loop.cur] >= now
        /\ loop.cur \in DOMAIN store.cooldown_until =>
              store'.cooldown_until[loop.cur] >= store.cooldown_until[loop.cur]

\* C19 - cooldown monotonicity: each value written to a channel's
\* cooldown_until is at or after the instant of the write, successive writes
\* to it never decrease, and it is written only when a new broadcast of that
\* channel is committed.
C19_CooldownMonotone == [][C19_Step]_vars

\* a second cooldown of channel A has just been written over an earlier one
C19_Witness ==
    /\ loop.pc = "recipients"
    /\ loop.cur = "A"
    /\ "A" \in DOMAIN obs.step.cd0
    /\ "A" \in DOMAIN store.cooldown_until
    /\ store.cooldown_until["A"] > obs.step.cd0["A"]
    /\ store.cooldown_until["A"] >= now

\* the backoff a credential is owed after `attempt` timeouts on it
backoff_of(attempt) == BaseDelayMs * BackoffFactor ^ attempt

\* a rotation leaves the next credential the whole attempt ceiling: the first
\* request with it is attempt 0, and a call gives up on timeouts only at the
\* last attempt of the credential in use
FullCeilingPerCredential ==
    \A p \in Procs :
        LET t == task[p]
        IN  /\ t.pc \in {"http", "backoff"} => t.attempt \in 0..(Retries - 1)
            /\ t.pc = "http" /\ t.outs # <<>> /\ t.outs[Len(t.outs)] = "quota" =>
                  t.attempt = 0
            /\ t.pc = "got" /\ t.outs[Len(t.outs)] = "transient" =>
                  t.attempt = Retries - 1

\* C20 - retry budget and backoff are per credential: after a rotation the
\* next credential has the full ceiling of 3 attempts, and the sleep after
\* its k-th timeout is the base delay doubled k-1 times, whatever was spent on
\* earlier credentials.
C20_PerCredentialBackoff ==
    /\ FullCeilingPerCredential
    /\ \A p \in Procs :
          task[p].pc = "backoff" =>
              task[p].sleeps[Len(task[p].sleeps)] = backoff_of(task[p].attempt)

\* the step in which a send of the loop fails
LoopSendFails == LoopSends /\ ~obs'.out.ok

C21_Step ==
    /\ LoopSendFails =>
          /\ store' = store
          /\ loop'.pc = "send"
          /\ loop'.cur = loop.cur /\ loop'.live = loop.live
          /\ loop'.todo = loop.todo
          /\ loop'.targets = loop.targets \ {obs'.out.chat}
          /\ loop'.targets = obs.step.targets0 \ obs'.step.tried
    /\ (loop.pc = "send" /\ loop'.pc \notin {"send", "stopped"}) =>
          /\ obs.step.tried = obs.step.targets0
          /\ loop'.pc = "iter"
          /\ loop'.todo = loop.todo
    /\ (LoopSends /\ obs'.out.chan = obs.chan /\ obs'.out.chat = obs.chat) =>
          ~obs.failed

\* C21 - per-recipient delivery isolation: a send of the loop that fails
\* leaves the store as committed and the loop in the send phase of the same
\* channel with every other recipient still to be tried; the loop leaves the
\* phase (short of a cancellation) only when every recipient has been tried,
\* and goes on to the channels left in the sweep; and the loop never sends
\* again, in this sweep or a later one, a notification whose delivery to the
\* chat failed.
C21_DeliveryIsolation == [][C21_Step]_vars

\* the send to chat 1 for channel A failed, chat 2 has been tried after it,
\* the commit stands and channel B is still to come in the sweep
C21_Witness ==
    /\ loop.pc = "send"
    /\ loop.cur = "A"
    /\ obs.failed
    /\ ~obs.got
    /\ obs.out.chat = 2 /\ obs.out.by = "loop"
    /\ obs.step.tried = {1, 2}
    /\ store.last_live["A"] = loop.live
    /\ loop.todo = {"B"}

\* the stored cooldown_until of the channel at the gate is corrupt
CorruptAtGate == loop.pc = "gate" /\ loop.cur \in DOMAIN store.cooldown_corrupt

\* C22 - a corrupt cooldown fails open: when the stored cooldown_until of a
\* channel cannot be parsed or compared, the step of the gate lets the channel
\* through to get_live_now in this sweep, with the store as it was and the
\* channels left in the sweep still to come; it neither skips the channel nor
\* ends the sweep.
C22_Step ==
    CorruptAtGate =>
        /\ loop'.pc = "await_live"
        /\ loop'.cur = loop.cur
        /\ loop'.todo = loop.todo
        /\ store' = store

C22_CorruptFailsOpen == [][C22_Step]_vars

\* channel A, whose entry does not parse, is being polled and B is still to
\* come in the sweep
C22_Witness ==
    /\ loop.pc = "await_live"
    /\ loop.cur = "A"
    /\ "A" \in DOMAIN store.cooldown_corrupt
    /\ store.cooldown_corrupt["A"] = "not_iso"
    /\ loop.todo = {"B"}

\* C23 - only channels with recipients are polled: every channel that
\* all_channels returns, and so every channel a sweep polls and may commit,
\* has at least one subscriber or one destination, whatever subscriptions
\* and removals came before.
C23_TrackedHaveRecipients ==
    \A c \in all_channels(store) : recipients(store, c) # {}

\* removing a subscription alone never leaves a channel tracked without recipients
TrackedBySubscriptionHaveRecipients ==
    \A c \in UNION {store.subscriptions[chat] : chat \in Chats} : recipients(store, c) # {}

\* broadcast v of channel A is live, is not the stored id, A has chat 1 as a
\* recipient and no cooldown of A is running
Pending(v) ==
    /\ live_on["A"] = v
    /\ is_new(store, "A", v)
    /\ "A" \in all_channels(store)
    /\ 1 \in recipients(store, "A")
    /\ ~in_cooldown(store, "A", now)

\* the loop has just sent chat 1 the notification of broadcast v of channel A
Emitted(v) == obs.out = [obs.out EXCEPT !.chat = 1, !.chan = "A", !.vid = v, !.by = "loop"]

NotifiedWhileLive ==
    \A v \in {"a1", "a2"} : Pending(v) ~> (Emitted(v) \/ live_on["A"] # v)

\* C24 - notification liveness: while broadcast v of channel A stays live
\* and is not the stored id, A has a recipient, the calls made for A succeed
\* and no cooldown of A is running, the fairly scheduled loop eventually
\* sends the notification of v to the recipient, whatever the calls made for
\* the other tracked channel do.
C24_NotificationLiveness ==
    /\ Pending("a1") ~> (Emitted("a1") \/ live_on["A"] # "a1")
    /\ Pending("a2") ~> (Emitted("a2") \/ live_on["A"] # "a2")

\* the rotations a call has made
Rotations(t) == Cardinality({i \in 1..Len(t.outs) : t.outs[i] = "quota"})

C25_Bounded ==
    /\ nkeys >= 1
    /\ key_index \in 0..(nkeys - 1)
    /\ \A p \in Procs :
          LET t == task[p]
          IN  InGet(t) =>
                /\ Len(t.reqs) <= nkeys * Retries
                /\ Rotations(t) <= nkeys
                /\ Rotations(t) = t.keys_tried
                /\ \A i \in 1..Len(t.reqs) : t.reqs[i] \in 1..nkeys
                /\ t.pc = "got" => t.r \in {"resp", "none", "raised"}

C25_Step ==
    /\ nkeys' = nkeys
    /\ key_index' # key_index =>
          \E p \in Procs : Answered(p, "quota") /\ Rotations(task'[p]) = Rotations(task[p]) + 1
    /\ \A p \in Procs :
          \A o \in {"ok", "transient", "status", "unhandled"} :
              Answered(p, o) => key_index' = key_index

\* C25 - a _get call is bounded and keeps the cursor valid: a call issues at
\* most N x retries requests and makes at most N rotations; the credentials
\* stay the same N >= 1 and 0 <= _key_index < N in every state; the cursor
\* changes only in the step of a quota/auth rejection, never on a success, a
\* timeout or a hard error.
C25_BoundedCall == [](C25_Bounded) /\ [][C25_Step]_vars

\* a call that spent the whole budget: with 2 credentials, two timeouts and a
\* rejection on each, 6 requests and 2 rotations, then None
C25_Witness ==
    \E p \in Procs :
        /\ nkeys = 2
        /\ task[p].pc = "got"
        /\ task[p].r = "none"
        /\ Len(task[p].reqs) = nkeys * Retries
        /\ Rotations(task[p]) = nkeys
        /\ task[p].outs = <<"transient", "transient", "quota", "transient", "transient", "quota">>

====
